---- MODULE Spec2Model ----
(***************************************************************************)
(* Model of neural-model/utils/evaluation.py (class Evaluator).            *)
(*                                                                         *)
(* Strings are sequences of one-character strings.  Python floats are      *)
(* modelled as exact rationals <<numerator, denominator>> in lowest terms  *)
(* with a positive denominator; every number stored in a SoftMetric or in  *)
(* a report is such a pair (an int n is <<n, 1>>).  A call's outcome is a  *)
(* record [exc, value]: exc = "" for a normal return, otherwise the name   *)
(* of the Python exception that propagates.                                *)
(***************************************************************************)
EXTENDS Integers, Sequences, FiniteSets, TLC

(* ------------------------------ bounds -------------------------------- *)
\* longest name over Alphabet passed to get_soft_metrics
MaxNameLen == 2
\* longest metrics_list handed to average by the metric calls
MaxRecords == 2
\* most examples in a dataset handed to a driver operation
MaxExamples == 3
\* largest batch size the configuration resolves to
MaxBatchSize == 2

(* --------------------------- float arithmetic -------------------------- *)
Abs(x) == IF x < 0 THEN -x ELSE x

RECURSIVE GCD(_, _)
GCD(a, b) == IF b = 0 THEN a ELSE GCD(b, a % b)

\* n / d for d # 0, in lowest terms
Rat(n, d) ==
  LET g == GCD(Abs(n), Abs(d))
      s == IF d < 0 THEN -1 ELSE 1
  IN  <<(s * n) \div g, (s * d) \div g>>

Num(n) == <<n, 1>>

\* the float nan
NaN == <<0, 0>>

RatAdd(p, q) == Rat(p[1] * q[2] + q[1] * p[2], p[2] * q[2])

\* p / q, defined for q # 0
RatDiv(p, q) == Rat(p[1] * q[2], p[2] * q[1])

RECURSIVE sum(_)
sum(vals) == IF vals = <<>> THEN Num(0) ELSE RatAdd(Head(vals), sum(Tail(vals)))

\* numpy.average of a non-empty sequence
np_average(vals) == RatDiv(sum(vals), Num(Len(vals)))

(* ------------------------------ outcomes ------------------------------- *)
Return(v) == [exc |-> "", value |-> v]
Raise(e) == [exc |-> e, value |-> <<>>]

(* ---------------------------- edit distance ---------------------------- *)
Min2(a, b) == IF a <= b THEN a ELSE b
Min3(a, b, c) == Min2(a, Min2(b, c))

\* one row of the dynamic programme: cur holds columns 0 .. Len(cur)-1
RECURSIVE NextRow(_, _, _, _)
NextRow(ch, b, prev, cur) ==
  IF Len(cur) = Len(b) + 1 THEN cur
  ELSE LET j == Len(cur)
           cost == IF b[j] = ch THEN 0 ELSE 1
           v == Min3(prev[j + 1] + 1, cur[j] + 1, prev[j] + cost)
       IN  NextRow(ch, b, prev, Append(cur, v))

RECURSIVE Rows(_, _, _, _)
Rows(a, b, i, prev) ==
  IF i > Len(a) THEN prev
  ELSE Rows(a, b, i + 1, NextRow(a[i], b, prev, <<i>>))

\* editdistance.eval(a, b)
editdistance_eval(a, b) ==
  Rows(a, b, 1, [j \in 1..(Len(b) + 1) |-> j - 1])[Len(b) + 1]

(* --------------------------- get_soft_metrics -------------------------- *)
get_soft_metrics_wrong_cer(pred_name, gold_name) ==
  LET edit_distance == editdistance_eval(pred_name, gold_name)
  IN  IF Len(gold_name) = 0 THEN Raise("ZeroDivisionError")
      ELSE Return([edit_distance |-> Num(edit_distance),
                   ref_len |-> Num(Len(gold_name)),
                   cer |-> Rat(edit_distance,
                               IF Len(pred_name) = 0 THEN 1 ELSE Len(pred_name)),
                   accuracy |-> Num(IF pred_name = gold_name THEN 1 ELSE 0)])

get_soft_metrics(pred_name, gold_name) ==
  LET edit_distance == editdistance_eval(pred_name, gold_name)
  IN  IF Len(gold_name) = 0 THEN Raise("ZeroDivisionError")
      ELSE Return([edit_distance |-> Num(edit_distance),
                   ref_len |-> Num(Len(gold_name)),
                   cer |-> Rat(edit_distance, Len(gold_name)),
                   accuracy |-> Num(IF pred_name = gold_name THEN 1 ELSE 0)])

(* ------------------------------- average ------------------------------- *)
\* the keys setdefault creates: every key of every record
AggKeys(metrics_list) ==
  UNION {DOMAIN metrics_list[i] : i \in 1..Len(metrics_list)}

\* the values appended under key, in the order of the records
RECURSIVE ValuesOf(_, _)
ValuesOf(metrics_list, key) ==
  IF metrics_list = <<>> THEN <<>>
  ELSE LET rest == ValuesOf(Tail(metrics_list), key)
       IN  IF key \in DOMAIN Head(metrics_list)
           THEN <<Head(metrics_list)[key]>> \o rest
           ELSE rest

agg_results(metrics_list) ==
  [key \in AggKeys(metrics_list) |-> ValuesOf(metrics_list, key)]

average_mean_of_cer(metrics_list) ==
  LET agg == agg_results(metrics_list)
  IN  IF "edit_distance" \notin DOMAIN agg THEN Raise("KeyError")
      ELSE IF "ref_len" \notin DOMAIN agg THEN Raise("KeyError")
      ELSE IF sum(agg["ref_len"]) = Num(0) THEN Raise("ZeroDivisionError")
      ELSE Return([key \in {"corpus_cer"} \cup DOMAIN agg |->
                     IF key \in DOMAIN agg THEN np_average(agg[key])
                     ELSE np_average(agg["cer"])])

average(metrics_list) ==
  LET agg == agg_results(metrics_list)
  IN  IF "edit_distance" \notin DOMAIN agg THEN Raise("KeyError")
      ELSE IF "ref_len" \notin DOMAIN agg THEN Raise("KeyError")
      ELSE IF sum(agg["ref_len"]) = Num(0) THEN Raise("ZeroDivisionError")
      ELSE Return([key \in {"corpus_cer"} \cup DOMAIN agg |->
                     IF key \in DOMAIN agg THEN np_average(agg[key])
                     ELSE RatDiv(sum(agg["edit_distance"]), sum(agg["ref_len"]))])

(* ---------------------------- metric inputs ---------------------------- *)
Alphabet == {"a", "b"}

RECURSIVE StringsOfLen(_)
StringsOfLen(n) ==
  IF n = 0 THEN {<<>>}
  ELSE {Append(s, c) : s \in StringsOfLen(n - 1), c \in Alphabet}

Names == UNION {StringsOfLen(n) : n \in 0..MaxNameLen}

file_name == <<"f", "i", "l", "e", "_", "n", "a", "m", "e">>
filename == <<"f", "i", "l", "e", "n", "a", "m", "e">>
hxxlo == <<"h", "x", "x", "l", "o">>
hello == <<"h", "e", "l", "l", "o">>
abc == <<"a", "b", "c">>

\* pairs (pred_name, gold_name) beyond Names \X Names
ExamplePairs == {<<file_name, filename>>, <<hxxlo, hello>>, <<abc, abc>>}

NamePairs == (Names \X Names) \cup ExamplePairs

(* ------------------------- driver collaborators ------------------------ *)
\* str(n) for n >= 0, as used by the f-string keys
RECURSIVE Str(_)
Str(n) ==
  LET d == <<"0", "1", "2", "3", "4", "5", "6", "7", "8", "9">>
  IN  IF n < 10 THEN <<d[n + 1]>> ELSE Str(n \div 10) \o <<d[(n % 10) + 1]>>

Meta(n, b) == [function_name_in_train |-> n, function_body_in_train |-> b]

\* variables of the examples: original name, gold name, the model's top prediction
vKeep == [old_name |-> <<"a">>, gold_new_name |-> <<"a">>, new_name |-> <<"a">>]
vRen == [old_name |-> <<"b">>, gold_new_name |-> <<"a", "b">>, new_name |-> <<"a">>]
vNoGold == [old_name |-> <<"b">>, gold_new_name |-> <<>>, new_name |-> <<"b">>]

MkExample(line, vs, meta) ==
  [binary_file |-> [file_name |-> <<"f">>, line_num |-> line],
   compilation_unit |-> <<"g">>,
   vars |-> vs,
   test_meta |-> meta]

\* the examples a dataset is made of
ExamplePool ==
  { MkExample(1, <<vKeep, vRen>>, Meta(TRUE, TRUE)),
    MkExample(2, <<vKeep, vRen>>, Meta(TRUE, FALSE)),
    MkExample(3, <<vKeep, vRen>>, Meta(FALSE, TRUE)),
    MkExample(4, <<vKeep, vRen>>, Meta(FALSE, FALSE)),
    MkExample(5, <<>>, Meta(TRUE, TRUE)),
    MkExample(6, <<vNoGold>>, Meta(FALSE, FALSE)) }

Datasets == UNION {[1..n -> ExamplePool] : n \in 0..MaxExamples}

\* example.variable_name_map.items(): (old_name, gold_new_name) in order
variable_name_map_items(example) ==
  [i \in 1..Len(example.vars) |->
     <<example.vars[i].old_name, example.vars[i].gold_new_name>>]

\* model.predict(examples): per example a ranked list of candidate mappings
predict(exs) ==
  [i \in 1..Len(exs) |->
     << [o \in {exs[i].vars[k].old_name : k \in 1..Len(exs[i].vars)} |->
           [new_name |->
              (CHOOSE v \in {exs[i].vars[k] : k \in 1..Len(exs[i].vars)} :
                 v.old_name = o).new_name]] >>]

\* the tensorised examples of evaluate_ppl: metadata and the log-probability
\* (an integer number of units) the model assigns to the gold target
PplPool ==
  { [test_meta |-> Meta(TRUE, TRUE), log_prob |-> -1],
    [test_meta |-> Meta(TRUE, FALSE), log_prob |-> -2],
    [test_meta |-> Meta(FALSE, TRUE), log_prob |-> -3],
    [test_meta |-> Meta(FALSE, FALSE), log_prob |-> -2] }

PplDatasets == UNION {[1..n -> PplPool] : n \in 0..MaxExamples}

\* the predicates a caller passes to evaluate_ppl
Predicates == {"_always_true", "never", "name_in_train", "body_in_train"}

predicate(p, test_meta) ==
  CASE p = "_always_true" -> TRUE
    [] p = "never" -> FALSE
    [] p = "name_in_train" -> test_meta.function_name_in_train
    [] p = "body_in_train" -> test_meta.function_body_in_train

\* result["batch_log_prob"].cpu().tolist() of model(batch.tensor_dict, ...)
batch_log_prob(batch) == [i \in 1..Len(batch) |-> batch[i].log_prob]

\* dataset.batch_iterator(batch_size = ...): consecutive batches
RECURSIVE batch_iterator(_, _)
batch_iterator(items, batch_size) ==
  IF items = <<>> THEN <<>>
  ELSE LET k == Min2(batch_size, Len(items))
       IN  <<SubSeq(items, 1, k)>>
             \o batch_iterator(SubSeq(items, k + 1, Len(items)), batch_size)

\* config["train"]: batch_size, and eval_batch_size when present
TrainConfigs ==
  {[batch_size |-> b] : b \in 1..MaxBatchSize}
    \cup {[batch_size |-> b, eval_batch_size |-> e] :
            b \in 1..MaxBatchSize, e \in 1..MaxBatchSize}

\* the eval_batch_size argument; 0 stands for None
BatchSizeArgs == 0..MaxBatchSize

ResolveBatchSize(eval_batch_size, train) ==
  IF eval_batch_size # 0 THEN eval_batch_size
  ELSE IF "eval_batch_size" \in DOMAIN train THEN train.eval_batch_size
  ELSE train.batch_size

(* ----------------------------- metric state ---------------------------- *)
VARIABLES
  metrics_list,   \* the list the caller builds and hands to average
  call,           \* the latest metric call: [fn, pred_name, gold_name]
  ret             \* its outcome

metricVars == <<metrics_list, call, ret>>

(* ----------------------------- driver state ---------------------------- *)
VARIABLES
  training,         \* model.training
  op,               \* the operation called
  pc,               \* idle, a position inside op, returned or raised
  exc,              \* the exception that reached the caller ("" if none)
  result,           \* the value returned
  args,             \* [dataset, batch_size, predicate, return_results]
  entry_training,   \* model.training when op was called
  prev_call,        \* outcome of the preceding call on the same inputs
  data_iter,        \* the batches the iterator has not yet yielded
  consumed,         \* the tensorised examples evaluate_ppl has seen
  examples,         \* batch.examples
  rename_results,   \* model.predict(examples)
  e_id,             \* position in the batch
  v_id,             \* position in variable_name_map.items()
  was_training,
  cum_log_probs,
  cum_num_examples,
  ppl,
  var_metrics,      \* the var_metric dicts created; lists hold their indices
  var_origin,       \* for each var_metric, the variable it was computed for
  example_pred_accs,
  example_acc_list,
  variable_acc_list,
  need_rename_cases,
  func_name_in_train_acc,
  func_name_not_in_train_acc,
  func_body_in_train_acc,
  func_body_not_in_train_acc,
  all_examples,
  valid_example_num,
  num_variables,
  corpus_acc

ctlVars == <<op, pc, exc, result, args, entry_training, prev_call>>
batchVars == <<examples, rename_results, e_id, v_id>>
pplVars == <<consumed, cum_log_probs, cum_num_examples, ppl>>
bucketVars ==
  <<need_rename_cases, func_name_in_train_acc, func_name_not_in_train_acc,
    func_body_in_train_acc, func_body_not_in_train_acc>>
listVars ==
  <<var_metrics, var_origin, example_pred_accs, example_acc_list,
    variable_acc_list>>
reduceVars == <<valid_example_num, num_variables, corpus_acc>>
driverVars ==
  <<training, ctlVars, data_iter, batchVars, was_training, pplVars, bucketVars,
    listVars, all_examples, reduceVars>>
vars == <<metricVars, driverVars>>

NoArgs ==
  [dataset |-> <<>>, batch_size |-> 0, predicate |-> "_always_true",
   return_results |-> FALSE]
NoPrev ==
  [called |-> FALSE, return_results |-> FALSE, pc |-> "idle", exc |-> "",
   report |-> <<>>]
EmptyDict == [k \in {} |-> <<>>]

\* the locals of a fresh call
LocalsFresh ==
  /\ examples = <<>> /\ rename_results = <<>> /\ e_id = 0 /\ v_id = 0
  /\ was_training = FALSE
  /\ consumed = <<>> /\ cum_log_probs = 0 /\ cum_num_examples = 0 /\ ppl = <<>>
  /\ var_metrics = <<>> /\ var_origin = <<>> /\ example_pred_accs = <<>>
  /\ example_acc_list = <<>> /\ variable_acc_list = <<>>
  /\ need_rename_cases = <<>>
  /\ func_name_in_train_acc = <<>> /\ func_name_not_in_train_acc = <<>>
  /\ func_body_in_train_acc = <<>> /\ func_body_not_in_train_acc = <<>>
  /\ all_examples = EmptyDict
  /\ valid_example_num = 0 /\ num_variables = 0 /\ corpus_acc = <<>>

InitDriver ==
  /\ training \in BOOLEAN
  /\ op = "none" /\ pc = "idle" /\ exc = "" /\ result = <<>>
  /\ args = NoArgs
  /\ entry_training = training
  /\ prev_call = NoPrev
  /\ data_iter = <<>>
  /\ LocalsFresh

\* an operation is called on an idle model; its outcome stays for the caller
Callable == pc = "idle"

\* what every call sets on entry, apart from its own locals
Enter(name, a, p) ==
  /\ op' = name /\ args' = a /\ prev_call' = p
  /\ exc' = "" /\ result' = <<>>
  /\ entry_training' = training
  /\ data_iter' = batch_iterator(a.dataset, a.batch_size)
  /\ examples' = <<>> /\ rename_results' = <<>> /\ e_id' = 0 /\ v_id' = 0
  /\ consumed' = <<>> /\ cum_log_probs' = 0 /\ cum_num_examples' = 0 /\ ppl' = <<>>
  /\ var_metrics' = <<>> /\ var_origin' = <<>> /\ example_pred_accs' = <<>>
  /\ example_acc_list' = <<>> /\ variable_acc_list' = <<>>
  /\ need_rename_cases' = <<>>
  /\ func_name_in_train_acc' = <<>> /\ func_name_not_in_train_acc' = <<>>
  /\ func_body_in_train_acc' = <<>> /\ func_body_not_in_train_acc' = <<>>
  /\ all_examples' = EmptyDict
  /\ valid_example_num' = 0 /\ num_variables' = 0 /\ corpus_acc' = <<>>

\* an exception leaves the operation
Fail(e) == pc' = "raised" /\ exc' = e /\ result' = <<>>

(* ----------------------------- metric calls ---------------------------- *)
NoCall == [fn |-> "none", pred_name |-> <<>>, gold_name |-> <<>>]

InitMetrics ==
  /\ metrics_list = <<>>
  /\ call = NoCall
  /\ ret = Raise("none")

\* a call of get_soft_metrics on its own, as at lines 243-244
CallGetSoftMetrics ==
  /\ metrics_list = <<>>
  /\ \E p \in NamePairs :
       /\ call' = [fn |-> "get_soft_metrics", pred_name |-> p[1],
                   gold_name |-> p[2]]
       /\ ret' = get_soft_metrics(p[1], p[2])
       /\ UNCHANGED <<metrics_list, driverVars>>

\* a caller computes one SoftMetric and appends it to its list, as at
\* lines 118-121
AppendMetric ==
  /\ Len(metrics_list) < MaxRecords
  /\ \E p \in NamePairs :
       LET r == get_soft_metrics(p[1], p[2])
       IN  /\ r.exc = ""
           /\ call' = [fn |-> "append", pred_name |-> <<>>, gold_name |-> <<>>]
           /\ ret' = r
           /\ metrics_list' = Append(metrics_list, r.value)
           /\ UNCHANGED driverVars

\* a caller reduces its list
CallAverage ==
  /\ call' = [fn |-> "average", pred_name |-> <<>>, gold_name |-> <<>>]
  /\ ret' = average(metrics_list)
  /\ UNCHANGED <<metrics_list, driverVars>>

\* a caller starts a new list
NewList ==
  /\ metrics_list # <<>>
  /\ metrics_list' = <<>>
  /\ call' = NoCall
  /\ ret' = Raise("none")
  /\ UNCHANGED driverVars

(* ----------------------------- evaluate_ppl ---------------------------- *)
\* the loop over enumerate(batch.tensor_dict["test_meta"]), from position e on:
\* <<cum_log_probs, cum_num_examples>> after it
RECURSIVE accumulate_ignoring_e_id(_, _, _, _, _, _)
accumulate_ignoring_e_id(p, test_meta, log_probs, e, cum, num) ==
  IF e > Len(test_meta) THEN <<cum, num>>
  ELSE IF predicate(p, test_meta[e])
       THEN accumulate_ignoring_e_id(p, test_meta, log_probs, e + 1,
                                     cum + log_probs[1], num + 1)
       ELSE accumulate_ignoring_e_id(p, test_meta, log_probs, e + 1, cum, num)

RECURSIVE accumulate_from(_, _, _, _, _, _)
accumulate_from(p, test_meta, log_probs, e, cum, num) ==
  IF e > Len(test_meta) THEN <<cum, num>>
  ELSE IF predicate(p, test_meta[e])
       THEN accumulate_from(p, test_meta, log_probs, e + 1,
                            cum + log_probs[e], num + 1)
       ELSE accumulate_from(p, test_meta, log_probs, e + 1, cum, num)

accumulate(p, test_meta, log_probs, e, cum, num) ==
  accumulate_from(p, test_meta, log_probs, e, cum, num)

\* np.exp(-cum / num) with cum a float and num an int; exp is left symbolic
perplexity_nan_on_zero(cum, num) ==
  IF num = 0 THEN Return([exp_of |-> NaN])
  ELSE Return([exp_of |-> Rat(-cum, num)])

perplexity(cum, num) ==
  IF num = 0 THEN Raise("ZeroDivisionError")
  ELSE Return([exp_of |-> Rat(-cum, num)])

\* lines 47-64: build the iterator, capture the mode, switch to eval
CallEvaluatePpl ==
  /\ Callable
  /\ \E ds \in PplDatasets, p \in Predicates, train \in TrainConfigs :
    /\ Enter("evaluate_ppl",
             [dataset |-> ds, batch_size |-> train.batch_size, predicate |-> p,
              return_results |-> FALSE],
             NoPrev)
    /\ was_training' = training
    /\ training' = FALSE
    /\ pc' = "ppl_iter"
    /\ UNCHANGED metricVars

\* lines 66-76: one batch is scored and its examples accumulated
PplBatch ==
  /\ op = "evaluate_ppl" /\ pc = "ppl_iter" /\ data_iter # <<>>
  /\ LET batch == Head(data_iter)
         test_meta == [i \in 1..Len(batch) |-> batch[i].test_meta]
         log_probs == batch_log_prob(batch)
         acc == accumulate(args.predicate, test_meta, log_probs, 1,
                           cum_log_probs, cum_num_examples)
     IN  /\ cum_log_probs' = acc[1]
         /\ cum_num_examples' = acc[2]
         /\ consumed' = consumed \o batch
  /\ data_iter' = Tail(data_iter)
  /\ UNCHANGED <<training, ctlVars, batchVars, was_training, ppl, bucketVars,
                 listVars, all_examples, reduceVars, metricVars>>

\* line 66: the batch iterator raises
PplIterRaises ==
  /\ op = "evaluate_ppl" /\ pc = "ppl_iter"
  /\ Fail("IteratorError")
  /\ UNCHANGED <<training, op, args, entry_training, prev_call, data_iter,
                 batchVars, was_training, pplVars, bucketVars, listVars,
                 all_examples, reduceVars, metricVars>>

\* line 68: the scoring call raises
PplModelRaises ==
  /\ op = "evaluate_ppl" /\ pc = "ppl_iter" /\ data_iter # <<>>
  /\ Fail("ModelError")
  /\ data_iter' = Tail(data_iter)
  /\ UNCHANGED <<training, op, args, entry_training, prev_call, batchVars,
                 was_training, pplVars, bucketVars, listVars, all_examples,
                 reduceVars, metricVars>>

\* line 78: the reduction
PplReduce ==
  /\ op = "evaluate_ppl" /\ pc = "ppl_iter" /\ data_iter = <<>>
  /\ LET r == perplexity(cum_log_probs, cum_num_examples)
     IN  IF r.exc # ""
         THEN Fail(r.exc) /\ UNCHANGED ppl
         ELSE ppl' = r.value /\ pc' = "ppl_restore" /\ UNCHANGED <<exc, result>>
  /\ UNCHANGED <<training, op, args, entry_training, prev_call, data_iter,
                 batchVars, was_training, consumed, cum_log_probs,
                 cum_num_examples, bucketVars, listVars, all_examples,
                 reduceVars, metricVars>>

\* lines 80-83: restore the mode and return
PplRestoreReturn ==
  /\ op = "evaluate_ppl" /\ pc = "ppl_restore"
  /\ training' = IF was_training THEN TRUE ELSE training
  /\ result' = ppl
  /\ pc' = "returned"
  /\ UNCHANGED <<op, exc, args, entry_training, prev_call, data_iter, batchVars,
                 was_training, pplVars, bucketVars, listVars, all_examples,
                 reduceVars, metricVars>>

(* -------------------------- decode, shared parts ----------------------- *)
\* f"{file_name}_{line_num}"
example_key(example) ==
  example.binary_file.file_name \o <<"_">> \o Str(example.binary_file.line_num)

\* f"{file_name}_{line_num}_{fun_name}"
decode_key(example) ==
  example_key(example) \o <<"_">> \o example.compilation_unit

\* d[k] = v
DictSet(d, k, v) == [x \in DOMAIN d \cup {k} |-> IF x = k THEN v ELSE d[x]]

\* the var_metric dicts a list of references holds
Deref(heap, refs) == [i \in 1..Len(refs) |-> heap[refs[i]]]

\* lines 115-121: the metrics of the variables from position i on, or the
\* exception get_soft_metrics raises
RECURSIVE example_metrics(_, _, _)
example_metrics(items, top_rename_result, i) ==
  IF i > Len(items) THEN Return(<<>>)
  ELSE LET r == get_soft_metrics(top_rename_result[items[i][1]].new_name,
                                 items[i][2])
       IN  IF r.exc # "" THEN r
           ELSE LET rest == example_metrics(items, top_rename_result, i + 1)
                IN  IF rest.exc # "" THEN rest
                    ELSE Return(<<r.value>> \o rest.value)

(* -------------------------------- decode ------------------------------- *)
\* lines 89-106: resolve the batch size, build the iterator, switch to eval
CallDecode ==
  /\ Callable
  /\ \E ds \in Datasets, eval_batch_size \in BatchSizeArgs, train \in TrainConfigs :
       /\ Enter("decode",
                [dataset |-> ds,
                 batch_size |-> ResolveBatchSize(eval_batch_size, train),
                 predicate |-> "_always_true", return_results |-> FALSE],
                NoPrev)
       /\ was_training' = FALSE
       /\ training' = FALSE
       /\ pc' = "decode_iter"
       /\ UNCHANGED metricVars

\* lines 109-111: the next batch and the model's predictions for it
DecodeNextBatch ==
  /\ op = "decode" /\ pc = "decode_iter" /\ data_iter # <<>>
  /\ examples' = Head(data_iter)
  /\ rename_results' = predict(Head(data_iter))
  /\ data_iter' = Tail(data_iter)
  /\ e_id' = 1
  /\ pc' = "decode_example"
  /\ UNCHANGED <<training, op, exc, result, args, entry_training, prev_call, v_id,
                 was_training, pplVars, bucketVars, listVars, all_examples,
                 reduceVars, metricVars>>

\* line 109: the batch iterator raises
DecodeIterRaises ==
  /\ op = "decode" /\ pc = "decode_iter"
  /\ Fail("IteratorError")
  /\ UNCHANGED <<training, op, args, entry_training, prev_call, data_iter,
                 batchVars, was_training, pplVars, bucketVars, listVars,
                 all_examples, reduceVars, metricVars>>

\* line 111: model.predict raises
DecodePredictRaises ==
  /\ op = "decode" /\ pc = "decode_iter" /\ data_iter # <<>>
  /\ Fail("ModelError")
  /\ data_iter' = Tail(data_iter)
  /\ UNCHANGED <<training, op, args, entry_training, prev_call, batchVars,
                 was_training, pplVars, bucketVars, listVars, all_examples,
                 reduceVars, metricVars>>

\* lines 112-128: one example is scored and stored
DecodeExample ==
  /\ op = "decode" /\ pc = "decode_example"
  /\ LET example == examples[e_id]
         rename_result == rename_results[e_id]
         accs == example_metrics(variable_name_map_items(example),
                                 rename_result[1], 1)
         avg == IF accs.exc # "" THEN accs ELSE average(accs.value)
     IN  IF avg.exc # ""
         THEN /\ Fail(avg.exc)
              /\ UNCHANGED <<all_examples, e_id>>
         ELSE /\ all_examples' = DictSet(all_examples, decode_key(example),
                                         <<rename_result, avg.value>>)
              /\ IF e_id < Len(examples)
                 THEN e_id' = e_id + 1 /\ pc' = "decode_example"
                 ELSE e_id' = e_id /\ pc' = "decode_iter"
              /\ UNCHANGED <<exc, result>>
  /\ UNCHANGED <<training, op, args, entry_training, prev_call, data_iter,
                 examples, rename_results, v_id, was_training, pplVars,
                 bucketVars, listVars, reduceVars, metricVars>>

\* line 130
DecodeReturn ==
  /\ op = "decode" /\ pc = "decode_iter" /\ data_iter = <<>>
  /\ result' = all_examples
  /\ pc' = "returned"
  /\ UNCHANGED <<training, op, exc, args, entry_training, prev_call, data_iter,
                 batchVars, was_training, pplVars, bucketVars, listVars,
                 all_examples, reduceVars, metricVars>>

(* -------------------------- decode_and_evaluate ------------------------ *)
\* line 188-189: need_rename_cases after one variable
need_rename_append(lst, var_metric, old_name, gold_new_name) ==
  IF gold_new_name # old_name THEN Append(lst, var_metric) ELSE lst

\* lines 188, 191-199: one bucket of a split after one variable; in_bucket is
\* the metadata test that selects the bucket
split_append_every_variable(lst, var_metric, old_name, gold_new_name, in_bucket) ==
  IF in_bucket THEN Append(lst, var_metric) ELSE lst

split_append(lst, var_metric, old_name, gold_new_name, in_bucket) ==
  IF gold_new_name # old_name /\ in_bucket THEN Append(lst, var_metric) ELSE lst

\* the report part of what decode_and_evaluate returns
ReportOf(res, return_results) == IF return_results THEN res[1] ELSE res

DaeArgs(ds, batch_size, return_results) ==
  [dataset |-> ds, batch_size |-> batch_size, predicate |-> "_always_true",
   return_results |-> return_results]

\* lines 140-169, entered with the given arguments
DaeEnter(a, p) ==
  /\ Enter("decode_and_evaluate", a, p)
  /\ was_training' = training
  /\ training' = FALSE
  /\ pc' = "dae_iter"
  /\ UNCHANGED metricVars

\* lines 140-169: resolve the batch size, build the iterator, capture the
\* mode, switch to eval
CallDecodeAndEvaluate ==
  /\ Callable
  /\ \E ds \in Datasets, return_results \in BOOLEAN,
        eval_batch_size \in BatchSizeArgs, train \in TrainConfigs :
       DaeEnter(DaeArgs(ds, ResolveBatchSize(eval_batch_size, train),
                        return_results),
                NoPrev)

\* the caller repeats a finished call on the same model, dataset and
\* configuration with the other value of return_results
CallDecodeAndEvaluateAgain ==
  /\ op = "decode_and_evaluate" /\ pc \in {"returned", "raised"}
  /\ ~prev_call.called
  /\ DaeEnter(DaeArgs(args.dataset, args.batch_size, ~args.return_results),
              [called |-> TRUE, return_results |-> args.return_results,
               pc |-> pc, exc |-> exc,
               report |-> IF pc = "returned"
                          THEN ReportOf(result, args.return_results)
                          ELSE <<>>])

\* lines 172-176: the next batch and the model's predictions for it
DaeNextBatch ==
  /\ op = "decode_and_evaluate" /\ pc = "dae_iter" /\ data_iter # <<>>
  /\ examples' = Head(data_iter)
  /\ rename_results' = predict(Head(data_iter))
  /\ data_iter' = Tail(data_iter)
  /\ e_id' = 1 /\ v_id' = 1
  /\ example_pred_accs' = <<>>
  /\ pc' = "dae_example"
  /\ UNCHANGED <<training, op, exc, result, args, entry_training, prev_call,
                 was_training, pplVars, bucketVars, var_metrics, var_origin,
                 example_acc_list, variable_acc_list, all_examples, reduceVars,
                 metricVars>>

\* line 172: the batch iterator raises
DaeIterRaises ==
  /\ op = "decode_and_evaluate" /\ pc = "dae_iter"
  /\ Fail("IteratorError")
  /\ UNCHANGED <<training, op, args, entry_training, prev_call, data_iter,
                 batchVars, was_training, pplVars, bucketVars, listVars,
                 all_examples, reduceVars, metricVars>>

\* line 174: model.predict raises
DaePredictRaises ==
  /\ op = "decode_and_evaluate" /\ pc = "dae_iter" /\ data_iter # <<>>
  /\ Fail("ModelError")
  /\ data_iter' = Tail(data_iter)
  /\ UNCHANGED <<training, op, args, entry_training, prev_call, batchVars,
                 was_training, pplVars, bucketVars, listVars, all_examples,
                 reduceVars, metricVars>>

\* lines 179-199: one variable of the example is scored and stratified
DaeVariable ==
  /\ op = "decode_and_evaluate" /\ pc = "dae_example"
  /\ v_id <= Len(examples[e_id].vars)
  /\ LET example == examples[e_id]
         item == variable_name_map_items(example)[v_id]
         old_name == item[1]
         gold_new_name == item[2]
         top_rename_result == rename_results[e_id][1]
         pred_new_name == top_rename_result[old_name].new_name
         r == get_soft_metrics(pred_new_name, gold_new_name)
         var_metric == Len(var_metrics) + 1
     IN  IF r.exc # ""
         THEN /\ Fail(r.exc)
              /\ UNCHANGED <<v_id, bucketVars, var_metrics, var_origin,
                             example_pred_accs>>
         ELSE /\ var_metrics' = Append(var_metrics, r.value)
              /\ var_origin' = Append(var_origin,
                                      [old_name |-> old_name,
                                       gold_new_name |-> gold_new_name,
                                       test_meta |-> example.test_meta])
              /\ example_pred_accs' = Append(example_pred_accs, var_metric)
              /\ need_rename_cases' =
                   need_rename_append(need_rename_cases, var_metric, old_name,
                                      gold_new_name)
              /\ func_name_in_train_acc' =
                   split_append(func_name_in_train_acc, var_metric, old_name,
                                gold_new_name,
                                example.test_meta.function_name_in_train)
              /\ func_name_not_in_train_acc' =
                   split_append(func_name_not_in_train_acc, var_metric, old_name,
                                gold_new_name,
                                ~example.test_meta.function_name_in_train)
              /\ func_body_in_train_acc' =
                   split_append(func_body_in_train_acc, var_metric, old_name,
                                gold_new_name,
                                example.test_meta.function_body_in_train)
              /\ func_body_not_in_train_acc' =
                   split_append(func_body_not_in_train_acc, var_metric, old_name,
                                gold_new_name,
                                ~example.test_meta.function_body_in_train)
              /\ v_id' = v_id + 1
              /\ UNCHANGED <<pc, exc, result>>
  /\ UNCHANGED <<training, op, args, entry_training, prev_call, data_iter,
                 examples, rename_results, e_id, was_training, pplVars,
                 example_acc_list, variable_acc_list, all_examples, reduceVars,
                 metricVars>>

\* lines 201-213: the example's metrics join the corpus lists and, with
\* return_results, its report is stored
DaeExampleEnd ==
  /\ op = "decode_and_evaluate" /\ pc = "dae_example"
  /\ v_id > Len(examples[e_id].vars)
  /\ variable_acc_list' = variable_acc_list \o example_pred_accs
  /\ example_acc_list' = Append(example_acc_list, example_pred_accs)
  /\ LET example == examples[e_id]
         avg == IF args.return_results
                THEN average(Deref(var_metrics, example_pred_accs))
                ELSE Return(<<>>)
     IN  IF avg.exc # ""
         THEN /\ Fail(avg.exc)
              /\ UNCHANGED <<all_examples, e_id, v_id, example_pred_accs>>
         ELSE /\ all_examples' =
                   IF args.return_results
                   THEN DictSet(all_examples, example_key(example),
                                <<rename_results[e_id], avg.value>>)
                   ELSE all_examples
              /\ IF e_id < Len(examples)
                 THEN /\ e_id' = e_id + 1 /\ v_id' = 1
                      /\ example_pred_accs' = <<>>
                      /\ pc' = "dae_example"
                 ELSE /\ UNCHANGED <<e_id, v_id, example_pred_accs>>
                      /\ pc' = "dae_iter"
              /\ UNCHANGED <<exc, result>>
  /\ UNCHANGED <<training, op, args, entry_training, prev_call, data_iter,
                 examples, rename_results, was_training, pplVars, bucketVars,
                 var_metrics, var_origin, reduceVars, metricVars>>

\* lines 215-217: the counts and the corpus report
DaeReduceCorpus ==
  /\ op = "decode_and_evaluate" /\ pc = "dae_iter" /\ data_iter = <<>>
  /\ valid_example_num' = Len(example_acc_list)
  /\ num_variables' = Len(variable_acc_list)
  /\ LET avg == average(Deref(var_metrics, variable_acc_list))
     IN  IF avg.exc # ""
         THEN Fail(avg.exc) /\ UNCHANGED corpus_acc
         ELSE /\ corpus_acc' = avg.value
              /\ pc' = "dae_restore"
              /\ UNCHANGED <<exc, result>>
  /\ UNCHANGED <<training, op, args, entry_training, prev_call, data_iter,
                 batchVars, was_training, pplVars, bucketVars, listVars,
                 all_examples, metricVars>>

\* lines 219-220: restore the mode
DaeRestore ==
  /\ op = "decode_and_evaluate" /\ pc = "dae_restore"
  /\ training' = IF was_training THEN TRUE ELSE training
  /\ pc' = "dae_buckets"
  /\ UNCHANGED <<op, exc, result, args, entry_training, prev_call, data_iter,
                 batchVars, was_training, pplVars, bucketVars, listVars,
                 all_examples, reduceVars, metricVars>>

\* lines 222-226: the five bucket reports in the order the code computes
\* them; the first exception leaves
bucket_reports(heap, need, name_in, name_not, body_in, body_not) ==
  LET need_rename_acc == average(Deref(heap, need))
      name_in_train_acc == average(Deref(heap, name_in))
      name_not_in_train_acc == average(Deref(heap, name_not))
      body_in_train_acc == average(Deref(heap, body_in))
      body_not_in_train_acc == average(Deref(heap, body_not))
  IN  IF need_rename_acc.exc # "" THEN need_rename_acc
      ELSE IF name_in_train_acc.exc # "" THEN name_in_train_acc
      ELSE IF name_not_in_train_acc.exc # "" THEN name_not_in_train_acc
      ELSE IF body_in_train_acc.exc # "" THEN body_in_train_acc
      ELSE IF body_not_in_train_acc.exc # "" THEN body_not_in_train_acc
      ELSE Return([corpus_need_rename_acc |-> need_rename_acc.value,
                   func_name_in_train_acc |-> name_in_train_acc.value,
                   func_name_not_in_train_acc |-> name_not_in_train_acc.value,
                   func_body_in_train_acc |-> body_in_train_acc.value,
                   func_body_not_in_train_acc |-> body_not_in_train_acc.value])

\* lines 222-240: the bucket reports, the result and the return
DaeReduceBucketsReturn ==
  /\ op = "decode_and_evaluate" /\ pc = "dae_buckets"
  /\ LET b == bucket_reports(var_metrics, need_rename_cases,
                             func_name_in_train_acc, func_name_not_in_train_acc,
                             func_body_in_train_acc, func_body_not_in_train_acc)
         eval_results ==
           [corpus_acc |-> corpus_acc,
            corpus_need_rename_acc |-> b.value.corpus_need_rename_acc,
            func_name_in_train_acc |-> b.value.func_name_in_train_acc,
            func_name_not_in_train_acc |-> b.value.func_name_not_in_train_acc,
            func_body_in_train_acc |-> b.value.func_body_in_train_acc,
            func_body_not_in_train_acc |-> b.value.func_body_not_in_train_acc,
            num_variables |-> num_variables,
            num_valid_examples |-> valid_example_num]
     IN  IF b.exc # ""
         THEN Fail(b.exc)
         ELSE /\ result' = IF args.return_results
                           THEN <<eval_results, all_examples>>
                           ELSE eval_results
              /\ pc' = "returned"
              /\ UNCHANGED exc
  /\ UNCHANGED <<training, op, args, entry_training, prev_call, data_iter,
                 batchVars, was_training, pplVars, bucketVars, listVars,
                 all_examples, reduceVars, metricVars>>

\* one call of decode_and_evaluate
NextDaeOnce ==
  \/ CallDecodeAndEvaluate
  \/ DaeNextBatch
  \/ DaeIterRaises
  \/ DaePredictRaises
  \/ DaeVariable
  \/ DaeExampleEnd
  \/ DaeReduceCorpus
  \/ DaeRestore
  \/ DaeReduceBucketsReturn

NextDecodeAndEvaluate == NextDaeOnce \/ CallDecodeAndEvaluateAgain

NextMetrics ==
  \/ CallGetSoftMetrics
  \/ AppendMetric
  \/ CallAverage
  \/ NewList

NextDecode ==
  \/ CallDecode
  \/ DecodeNextBatch
  \/ DecodeIterRaises
  \/ DecodePredictRaises
  \/ DecodeExample
  \/ DecodeReturn

NextPpl ==
  \/ CallEvaluatePpl
  \/ PplBatch
  \/ PplIterRaises
  \/ PplModelRaises
  \/ PplReduce
  \/ PplRestoreReturn

InitAll == InitMetrics /\ InitDriver

SpecMetrics == InitAll /\ [][NextMetrics]_vars

SpecPpl == InitAll /\ [][NextPpl]_vars

SpecDecode == InitAll /\ [][NextDecode]_vars

SpecDecodeAndEvaluate == InitAll /\ [][NextDecodeAndEvaluate]_vars

SpecDaeOnce == InitAll /\ [][NextDaeOnce]_vars

\* the three driver operations
Next == NextPpl \/ NextDecode \/ NextDecodeAndEvaluate

Spec == InitAll /\ [][Next]_vars

(* ================================ claims =============================== *)
Terminal == pc \in {"returned", "raised"}

\* exceptions raised by the collaborators, not by the Evaluator's own code
CollaboratorErrors == {"IteratorError", "ModelError"}

\* the minimum number of single-character insertions, deletions and
\* substitutions turning a into b
RECURSIVE Levenshtein(_, _)
Levenshtein(a, b) ==
  IF a = <<>> THEN Len(b)
  ELSE IF b = <<>> THEN Len(a)
  ELSE IF Head(a) = Head(b) THEN Levenshtein(Tail(a), Tail(b))
  ELSE 1 + Min3(Levenshtein(Tail(a), b), Levenshtein(a, Tail(b)),
                Levenshtein(Tail(a), Tail(b)))

\* the sum of field key over the first n records
RECURSIVE FieldSum(_, _, _)
FieldSum(records, key, n) ==
  IF n = 0 THEN Num(0) ELSE RatAdd(FieldSum(records, key, n - 1), records[n][key])

FieldMean(records, key) == RatDiv(FieldSum(records, key, Len(records)), Num(Len(records)))

MetricKeys == {"edit_distance", "ref_len", "cer", "accuracy"}

\* how often reference r occurs in a list
Count(r, refs) == Cardinality({i \in 1..Len(refs) : refs[i] = r})

\* C1: when evaluate_ppl, decode or decode_and_evaluate returns normally, the
\* model's training flag equals the value it had immediately before the call.
C1_ModeRestoredOnReturn ==
  pc = "returned" => training = entry_training

\* C2: when a failure after the switch to evaluation mode reaches the caller
\* of evaluate_ppl, decode or decode_and_evaluate, the model's training flag
\* has been restored to the value it had before the call.
C2_ModeRestoredOnFailure ==
  pc = "raised" => training = entry_training

C4_Stratification ==
  op = "decode_and_evaluate" =>
    /\ Len(func_name_in_train_acc) + Len(func_name_not_in_train_acc)
         = Len(need_rename_cases)
    /\ Len(func_body_in_train_acc) + Len(func_body_not_in_train_acc)
         = Len(need_rename_cases)
    /\ Len(var_origin) = Len(var_metrics)
    /\ \A m \in 1..Len(var_metrics) :
         LET renamed == var_origin[m].gold_new_name # var_origin[m].old_name
             k == IF renamed THEN 1 ELSE 0
         IN  /\ Count(m, need_rename_cases) = k
             /\ Count(m, func_name_in_train_acc)
                  + Count(m, func_name_not_in_train_acc) = k
             /\ Count(m, func_body_in_train_acc)
                  + Count(m, func_body_not_in_train_acc) = k
             /\ Count(m, func_name_in_train_acc) \in {0, 1}
             /\ Count(m, func_body_in_train_acc) \in {0, 1}
             /\ renamed =>
                  /\ (Count(m, func_name_in_train_acc) = 1)
                       = var_origin[m].test_meta.function_name_in_train
                  /\ (Count(m, func_body_in_train_acc) = 1)
                       = var_origin[m].test_meta.function_body_in_train

\* C4 witness: renamed and unrenamed variables have been processed and both
\* buckets of both splits are in use, the splits differing
C4_Witness ==
  /\ op = "decode_and_evaluate"
  /\ Len(need_rename_cases) >= 2
  /\ Len(var_metrics) > Len(need_rename_cases)
  /\ func_name_in_train_acc # <<>> /\ func_name_not_in_train_acc # <<>>
  /\ func_body_in_train_acc # <<>> /\ func_body_not_in_train_acc # <<>>
  /\ func_name_in_train_acc # func_body_in_train_acc

\* every variable of the dataset has a non-empty gold name
AllGoldNonEmpty(ds) ==
  \A i \in 1..Len(ds) : \A k \in 1..Len(ds[i].vars) :
    ds[i].vars[k].gold_new_name # <<>>

ReportNames ==
  {"corpus_acc", "corpus_need_rename_acc", "func_name_in_train_acc",
   "func_name_not_in_train_acc", "func_body_in_train_acc",
   "func_body_not_in_train_acc"}

\* C5: on every dataset whose variables all have a non-empty gold name, with
\* the iterator and model.predict not raising, decode_and_evaluate without
\* return_results returns a result with a report for each of the six
\* buckets, num_variables and num_valid_examples, the latter the number of
\* examples processed, whatever buckets stayed empty.
C5_SixReports ==
  ( /\ op = "decode_and_evaluate" /\ ~args.return_results
    /\ Terminal /\ exc \notin CollaboratorErrors
    /\ AllGoldNonEmpty(args.dataset) ) =>
      /\ pc = "returned"
      /\ DOMAIN result = ReportNames \cup {"num_variables", "num_valid_examples"}
      /\ result.num_valid_examples = Len(args.dataset)

\* C6: for a non-empty list of SoftMetric records, average returns a report
\* whose corpus_cer is sum(edit_distance) / sum(ref_len) and whose
\* edit_distance, ref_len, cer and accuracy are the arithmetic means of the
\* fields; the records (2, 5) and (0, 3) give corpus_cer 1/4 and mean
\* edit_distance 1.
C6_Average ==
  (call.fn = "average" /\ metrics_list # <<>>) =>
    /\ ret.exc = ""
    /\ DOMAIN ret.value = MetricKeys \cup {"corpus_cer"}
    /\ ret.value["corpus_cer"] =
         RatDiv(FieldSum(metrics_list, "edit_distance", Len(metrics_list)),
                FieldSum(metrics_list, "ref_len", Len(metrics_list)))
    /\ \A key \in MetricKeys : ret.value[key] = FieldMean(metrics_list, key)
    /\ ( /\ Len(metrics_list) = 2
         /\ metrics_list[1].edit_distance = Num(2) /\ metrics_list[1].ref_len = Num(5)
         /\ metrics_list[2].edit_distance = Num(0) /\ metrics_list[2].ref_len = Num(3) )
         => ret.value["corpus_cer"] = <<1, 4>> /\ ret.value["edit_distance"] = Num(1)

\* C6 witness: the records (2, 5) and (0, 3) have been averaged
C6_Witness ==
  /\ call.fn = "average" /\ Len(metrics_list) = 2
  /\ metrics_list[1].edit_distance = Num(2) /\ metrics_list[1].ref_len = Num(5)
  /\ metrics_list[2].edit_distance = Num(0) /\ metrics_list[2].ref_len = Num(3)
  /\ ret.exc = "" /\ ret.value["corpus_cer"] = <<1, 4>>

\* C7: average called with zero records fails with the explicit
\* EmptyInputError or returns a report whose fields are all NaN, and nothing
\* else.
C7_AverageEmpty ==
  (call.fn = "average" /\ metrics_list = <<>>) =>
    \/ ret.exc = "EmptyInputError"
    \/ /\ ret.exc = ""
       /\ DOMAIN ret.value = MetricKeys \cup {"corpus_cer"}
       /\ \A key \in DOMAIN ret.value : ret.value[key] = NaN

\* C8: for every pred_name and non-empty gold_name, get_soft_metrics returns
\* edit_distance = the Levenshtein distance, ref_len = len(gold_name),
\* cer = edit_distance / ref_len and accuracy = 1 exactly when the names are
\* equal (then edit_distance is 0), else 0; ("file_name", "filename") gives
\* edit_distance 1, ref_len 8, cer 1/8, accuracy 0.
C8_SoftMetrics ==
  (call.fn = "get_soft_metrics" /\ call.gold_name # <<>>) =>
    /\ ret.exc = ""
    /\ DOMAIN ret.value = MetricKeys
    /\ ret.value.edit_distance
         = Num(Levenshtein(call.pred_name, call.gold_name))
    /\ ret.value.ref_len = Num(Len(call.gold_name))
    /\ ret.value.cer = RatDiv(ret.value.edit_distance, ret.value.ref_len)
    /\ ret.value.accuracy
         = IF call.pred_name = call.gold_name THEN Num(1) ELSE Num(0)
    /\ call.pred_name = call.gold_name => ret.value.edit_distance = Num(0)
    /\ (call.pred_name = file_name /\ call.gold_name = filename) =>
         ret.value = [edit_distance |-> Num(1), ref_len |-> Num(8),
                      cer |-> <<1, 8>>, accuracy |-> Num(0)]

\* C8 witness: get_soft_metrics("file_name", "filename") has returned
C8_Witness ==
  /\ call.fn = "get_soft_metrics"
  /\ call.pred_name = file_name /\ call.gold_name = filename
  /\ ret.exc = "" /\ ret.value.cer = <<1, 8>>

\* the consumed examples the predicate accepts
Accepted(p, seen) == SelectSeq(seen, LAMBDA x : predicate(p, x.test_meta))

RECURSIVE LogProbSum(_)
LogProbSum(seen) == IF seen = <<>> THEN 0 ELSE Head(seen).log_prob + LogProbSum(Tail(seen))

\* C9: in evaluate_ppl, after any prefix of the batch stream, the count is
\* the number of examples seen so far that the predicate accepts and the
\* cumulative log-probability is the sum of their own log-probabilities; the
\* value returned is exp(-cumulative_log_prob / count) of the final pair.
C9_Accumulators ==
  op = "evaluate_ppl" =>
    /\ consumed = SubSeq(args.dataset, 1, Len(consumed))
    /\ cum_num_examples = Len(Accepted(args.predicate, consumed))
    /\ cum_log_probs = LogProbSum(Accepted(args.predicate, consumed))
    /\ pc = "returned" =>
         /\ consumed = args.dataset
         /\ result = [exp_of |-> Rat(-cum_log_probs, cum_num_examples)]

\* C9 witness: a pass over a full dataset in batches of two, with accepted
\* and rejected examples, has returned
C9_Witness ==
  /\ op = "evaluate_ppl" /\ pc = "returned"
  /\ args.batch_size = 2
  /\ Len(consumed) = MaxExamples
  /\ cum_num_examples > 1 /\ cum_num_examples < Len(consumed)
  /\ result = [exp_of |-> <<3, 2>>]

\* C10: a call of decode_and_evaluate with return_results set and one with it
\* unset, on the same model, dataset and configuration, both fail or both
\* succeed, and when they succeed the reports are identical.
C10_ReturnResultsOnlyAdds ==
  ( /\ op = "decode_and_evaluate" /\ prev_call.called /\ Terminal
    /\ exc \notin CollaboratorErrors
    /\ prev_call.exc \notin CollaboratorErrors ) =>
      /\ prev_call.pc = pc
      /\ pc = "returned" =>
           prev_call.report = ReportOf(result, args.return_results)

====
